---- MODULE Spec2Model ----
(***************************************************************************)
(* Model of linalg::SliceOp (examples/Linalg/Linalg1/lib/SliceOp.cpp):     *)
(* build, verify, parse, print and the derived accessors, over types that  *)
(* are views (element type, rank), range, index, or some other type.       *)
(*                                                                         *)
(* `unsigned` is 32 bits wide and an IntegerAttr holds a 64-bit integer.   *)
(* Both are kept at their width: an unsigned is a pair <<hi16, lo16>> of   *)
(* 16-bit limbs, and an int64 is [hi |-> v \div 2^32, lo |-> v % 2^32].    *)
(***************************************************************************)
EXTENDS Integers, Sequences, FiniteSets

VARIABLES
  op,         \* the current SliceOp instance (operands' types, attributes, result types)
  state,      \* the OperationState last handed to build or parse
  out,        \* what the last operation returned
  text,       \* the tokens last written by print
  printedOp,  \* the instance print was called on
  input,      \* the arguments of the one call made under SpecOps
  aborted     \* the process was terminated by a failed assertion

vars == <<op, state, out, text, printedOp, input, aborted>>

----------------------------------------------------------------------------
(* Bounds of the model.                                                    *)

MaxRank == 2
MaxDim == 3
MaxIndexings == 2
MaxTypes == 3

----------------------------------------------------------------------------
(* unsigned (32 bits) and int64_t arithmetic.                              *)

Limb == 65536

U32(n) == <<0, n>>

U32Max == <<Limb - 1, Limb - 1>>

\* a - 1 in unsigned arithmetic: 0 - 1 wraps to 2^32 - 1
U32Dec(a) ==
  IF a[2] > 0 THEN <<a[1], a[2] - 1>>
  ELSE IF a[1] > 0 THEN <<a[1] - 1, Limb - 1>>
  ELSE U32Max

U32Lt(a, b) == a[1] < b[1] \/ (a[1] = b[1] /\ a[2] < b[2])

\* unsigned -> int64_t: value preserving
ZExt(u) == [hi |-> 0, lo |-> u]

\* int64_t -> unsigned: the low 32 bits
ToUnsigned(v) == v.lo

\* the int64_t whose value is the small integer k
I64(k) ==
  IF k >= 0 THEN [hi |-> 0, lo |-> U32(k)]
  ELSE [hi |-> -1, lo |-> <<Limb - 1, Limb + k>>]

\* the int64_t 2^32 + k
I64Above(k) == [hi |-> 1, lo |-> U32(k)]

----------------------------------------------------------------------------
(* Types.                                                                  *)

ElemTypes == {"f32", "i32"}

ViewType(elementType, rank) == [kind |-> "view", elem |-> elementType, rank |-> rank]

RangeType == [kind |-> "range", elem |-> "-", rank |-> U32(0)]

IndexType == [kind |-> "index", elem |-> "-", rank |-> U32(0)]

F32Type == [kind |-> "f32", elem |-> "-", rank |-> U32(0)]

isa(type, kind) == type.kind = kind

\* views a program declares
DeclaredViews == {ViewType(e, U32(r)) : e \in ElemTypes, r \in 0..MaxRank}

\* views that exist as values: declared ones and results of earlier slices
ViewTypes == DeclaredViews \cup {ViewType(e, U32Max) : e \in ElemTypes}

IndexingTypes == {RangeType, IndexType}

Types == ViewTypes \cup IndexingTypes \cup {F32Type}

\* the types a text declares: f32 views of every declared rank, an i32 view,
\* range, index and f32
TextTypes ==
  {ViewType("f32", U32(r)) : r \in 0..MaxRank} \cup {ViewType("i32", U32(MaxRank))}
  \cup IndexingTypes \cup {F32Type}

----------------------------------------------------------------------------
(* Attributes and OperationState.                                          *)

IntegerAttr(name, type, value) == [name |-> name, type |-> type, value |-> value]

getSlicingDimAttrName == "dim"

\* some attribute other than dim
TagAttr == IntegerAttr("tag", "i64", I64(0))

EmptyState == [operands |-> <<>>, attributes |-> {}, types |-> <<>>]

hasAttr(o, name) == \E a \in o.attributes : a.name = name

getAttr(o, name) == CHOOSE a \in o.attributes : a.name = name

\* NamedAttributeList: one attribute per name
addAttribute(attributes, attr) ==
  {a \in attributes : a.name # attr.name} \cup {attr}

----------------------------------------------------------------------------
(* Accessors. An operand is a value; the model keeps its type.             *)

getParentView(o) == o.operands[1]

getIndexing(o) == o.operands[2]

getViewType(o) == o.types[1]

getRank(o) == getViewType(o).rank

getElementType(o) == getViewType(o).elem

getParentViewType(o) == getParentView(o)

getParentRank(o) == getParentViewType(o).rank

getParentElementType(o) == getParentViewType(o).elem

getSlicingDim(o) == ToUnsigned(getAttr(o, getSlicingDimAttrName).value)

isRankDecreasingGt(o) == U32Lt(getRank(o), getParentRank(o))

isRankDecreasing(o) == getParentRank(o) # getRank(o)

----------------------------------------------------------------------------
(* build.                                                                  *)

getViewRank(view) == view.rank

buildKeepsRank(view, indexing, dim) ==
  [operands |-> <<view, indexing>>,
   attributes |-> {IntegerAttr(getSlicingDimAttrName, "index", ZExt(dim))},
   types |-> <<ViewType(view.elem, getViewRank(view))>>]

build(view, indexing, dim) ==
  LET rank == getViewRank(view)
      elementType == view.elem
  IN [operands |-> <<view, indexing>>,
      attributes |-> addAttribute({}, IntegerAttr(getSlicingDimAttrName, "index", ZExt(dim))),
      types |-> IF isa(indexing, "range")
                THEN <<view>>
                ELSE <<ViewType(elementType, U32Dec(rank))>>]

----------------------------------------------------------------------------
(* verify.                                                                 *)

MissingDimMsg == "slice op expects a dim attribute"

DimRangeMsg == "slicing dim must be in the [0 .. parent_rank) range"

FirstOperandMsg == "first operand must be of ViewType (i.e. a ViewOp or a SliceOp)"

SecondOperandMsg == "second operand must be of RangeType (i.e. a RangeOp) or IndexType"

Success == "success"

\* what a call returns: its result, the checks it evaluated in order, and
\* whether an assertion terminated the process instead
Returned(result, checks) == [result |-> result, checks |-> checks, aborted |-> FALSE]

AssertionFailed(checks) == [result |-> "aborted", checks |-> checks, aborted |-> TRUE]

\* cast<ViewType>() of a type that is no view is an assertion failure; with
\* assertions compiled out getRank() reads a word of another type's storage
GarbageRanks == {U32(r) : r \in 0..MaxRank} \cup {U32Max}

\* lines 63-74, with the value getParentRank() returned
verifyFrom(o, parentRank) ==
  LET dim == getSlicingDim(o) IN
  IF ~U32Lt(dim, parentRank)
  THEN Returned(DimRangeMsg, <<"attr", "range">>)
  ELSE IF ~isa(o.operands[1], "view")
  THEN Returned(FirstOperandMsg, <<"attr", "range", "operand0">>)
  ELSE IF ~isa(o.operands[2], "range") /\ ~isa(o.operands[2], "index")
  THEN Returned(SecondOperandMsg, <<"attr", "range", "operand0", "operand1">>)
  ELSE Returned(Success, <<"attr", "range", "operand0", "operand1">>)

\* a verify that looks at operand 0 before it looks for the attribute
verifyOperandFirst(o) ==
  IF ~isa(o.operands[1], "view")
  THEN {Returned(FirstOperandMsg, <<"operand0">>)}
  ELSE IF ~hasAttr(o, getSlicingDimAttrName)
  THEN {Returned(MissingDimMsg, <<"operand0", "attr">>)}
  ELSE {verifyFrom(o, getParentRank(o))}

\* the set of outcomes of verify() on instance o
verify(o) ==
  IF ~hasAttr(o, getSlicingDimAttrName)
  THEN {Returned(MissingDimMsg, <<"attr">>)}
  ELSE IF isa(getParentView(o), "view")
  THEN {verifyFrom(o, getParentRank(o))}
  ELSE {AssertionFailed(<<"attr", "range">>)}
       \cup {verifyFrom(o, g) : g \in GarbageRanks}

----------------------------------------------------------------------------
(* The textual form: a sequence of tokens.                                 *)

NoType == [kind |-> "-", elem |-> "-", rank |-> U32(0)]

Token(k, s, t, a) == [k |-> k, s |-> s, t |-> t, a |-> a]

NameTok == Token("name", "linalg.slice", NoType, {})

SsaTok(name) == Token("ssa", name, NoType, {})

Punct(s) == Token("punct", s, NoType, {})

TypeTok(type) == Token("type", "", type, {})

\* an attribute dictionary { name = value [: type], ... }
DictTok(entries) == Token("dict", "", NoType, entries)

EofTok == Token("eof", "", NoType, {})

\* the generic attribute printer leaves out the type of an i64 integer
printAttr(a) == [a EXCEPT !.type = IF a.type = "i64" THEN "" ELSE a.type]

\* the generic attribute parser gives an untyped integer literal the type i64
parseAttr(e) == [e EXCEPT !.type = IF e.type = "" THEN "i64" ELSE e.type]

\* the names print gives the operands: parent view, then indexing
OperandNames == <<"%0", "%1", "%2", "%3", "%4">>

----------------------------------------------------------------------------
(* print.                                                                  *)

printOptionalAttrDict(attributes, elided) ==
  LET shown == {a \in attributes : a.name \notin elided} IN
  IF shown = {} THEN <<>> ELSE <<DictTok({printAttr(a) : a \in shown})>>

print(o) ==
  <<NameTok, SsaTok(OperandNames[1]), Punct("["), SsaTok(OperandNames[2]), Punct("]")>>
  \o <<DictTok({[name |-> "dim", type |-> "",
                 value |-> getAttr(o, "dim").value]})>>
  \o printOptionalAttrDict(o.attributes, {"dim"})
  \o <<Punct(":"), TypeTok(getParentViewType(o)), Punct(","), TypeTok(getIndexing(o))>>

----------------------------------------------------------------------------
(* parse.                                                                  *)

tokAt(toks, p) == IF p \in 1..Len(toks) THEN toks[p] ELSE EofTok

isPunct(tok, s) == tok.k = "punct" /\ tok.s = s

parseOperand(toks, p) ==
  [ok |-> tokAt(toks, p).k = "ssa", name |-> tokAt(toks, p).s, next |-> p + 1]

RECURSIVE parseOperandsUntilSquare(_, _, _)
parseOperandsUntilSquare(toks, p, acc) ==
  IF tokAt(toks, p).k # "ssa"
  THEN [ok |-> FALSE, names |-> acc, next |-> p]
  ELSE LET names == Append(acc, tokAt(toks, p).s) IN
       IF isPunct(tokAt(toks, p + 1), ",")
       THEN parseOperandsUntilSquare(toks, p + 2, names)
       ELSE [ok |-> isPunct(tokAt(toks, p + 1), "]"), names |-> names, next |-> p + 2]

\* parseOperandList(result, 1, Delimiter::Square): the bracketed list, of any length
parseOperandList(toks, p) ==
  IF ~isPunct(tokAt(toks, p), "[")
  THEN [ok |-> FALSE, names |-> <<>>, next |-> p]
  ELSE IF isPunct(tokAt(toks, p + 1), "]")
  THEN [ok |-> TRUE, names |-> <<>>, next |-> p + 2]
  ELSE parseOperandsUntilSquare(toks, p + 1, <<>>)

parseOptionalAttributeDict(toks, p) ==
  IF tokAt(toks, p).k = "dict"
  THEN [attributes |-> {parseAttr(e) : e \in tokAt(toks, p).a}, next |-> p + 1]
  ELSE [attributes |-> {}, next |-> p]

RECURSIVE parseTypeList(_, _, _)
parseTypeList(toks, p, acc) ==
  IF tokAt(toks, p).k # "type"
  THEN [ok |-> FALSE, types |-> acc, next |-> p]
  ELSE LET types == Append(acc, tokAt(toks, p).t) IN
       IF isPunct(tokAt(toks, p + 1), ",")
       THEN parseTypeList(toks, p + 2, types)
       ELSE [ok |-> TRUE, types |-> types, next |-> p + 1]

parseColonTypeList(toks, p) ==
  IF ~isPunct(tokAt(toks, p), ":")
  THEN [ok |-> FALSE, types |-> <<>>, next |-> p]
  ELSE parseTypeList(toks, p + 1, <<>>)

\* resolveOperand(s): the named value with the declared type is appended, unless
\* the name is defined with another type
resolveOperand(name, type, operands, conflicts) ==
  [ok |-> name \notin conflicts,
   operands |-> IF name \notin conflicts THEN Append(operands, type) ELSE operands]

GrammarMsg == "syntax error"

ExpectedOneIndexingMsg == "expected 1 indexing type"

ViewTypeExpectedMsg == "view type expected as first type"

IndexingTypeMsg == "indexing must be of range or index type"

ResolveMsg == "use of value expects different type than prior uses"

ParseResult(result, operands, attributes, types) ==
  [result |-> result,
   state |-> [operands |-> operands, attributes |-> attributes, types |-> types]]

\* lines 92-114, after the grammar and the indexing count were accepted
parseTyped(viewName, indexingName, attributes, types, conflicts) ==
  LET viewType == types[1]
      last == types[Len(types)]
      rank == IF isa(last, "index") THEN U32Dec(viewType.rank) ELSE viewType.rank
      resultViewType == ViewType(viewType.elem, rank)
      r1 == resolveOperand(viewName, viewType, <<>>, conflicts)
      r2 == resolveOperand(indexingName, last, r1.operands, conflicts)
  IN IF ~isa(viewType, "view")
     THEN ParseResult(ViewTypeExpectedMsg, <<>>, attributes, <<>>)
     ELSE IF ~isa(last, "index") /\ ~isa(last, "range")
     THEN ParseResult(IndexingTypeMsg, <<>>, attributes, <<>>)
     ELSE IF ~r1.ok
     THEN ParseResult(ResolveMsg, r1.operands, attributes, <<>>)
     ELSE IF ~r2.ok
     THEN ParseResult(ResolveMsg, r2.operands, attributes, <<>>)
     ELSE ParseResult(Success, r2.operands, attributes, <<resultViewType>>)

\* a parse that rejects only two or more indexings
parseAtMostOne(toks, conflicts) ==
  LET v == parseOperand(toks, 1)
      l == parseOperandList(toks, v.next)
      a == parseOptionalAttributeDict(toks, l.next)
      t == parseColonTypeList(toks, a.next)
  IN IF ~v.ok \/ ~l.ok
     THEN ParseResult(GrammarMsg, <<>>, {}, <<>>)
     ELSE IF ~t.ok
     THEN ParseResult(GrammarMsg, <<>>, a.attributes, <<>>)
     ELSE IF Len(l.names) > 1
     THEN ParseResult(ExpectedOneIndexingMsg, <<>>, a.attributes, <<>>)
     ELSE parseTyped(v.name, IF l.names = <<>> THEN v.name ELSE l.names[1],
                     a.attributes, t.types, conflicts)

\* parse(parser, result) on the tokens after the operation name, with result
\* empty; conflicts are the names the enclosing function defines with a type
\* other than the one the text declares for them
parse(toks, conflicts) ==
  LET v == parseOperand(toks, 1)
      l == parseOperandList(toks, v.next)
      a == parseOptionalAttributeDict(toks, l.next)
      t == parseColonTypeList(toks, a.next)
  IN IF ~v.ok \/ ~l.ok
     THEN ParseResult(GrammarMsg, <<>>, {}, <<>>)
     ELSE IF ~t.ok
     THEN ParseResult(GrammarMsg, <<>>, a.attributes, <<>>)
     ELSE IF Len(l.names) # 1
     THEN ParseResult(ExpectedOneIndexingMsg, <<>>, a.attributes, <<>>)
     ELSE parseTyped(v.name, l.names[1], a.attributes, t.types, conflicts)

----------------------------------------------------------------------------
(* The instance's life: built or parsed, changed through the generic       *)
(* mutation API, verified and printed.                                     *)

Out(kind, result, checks) == [kind |-> kind, result |-> result, checks |-> checks]

NoInput ==
  [kind |-> "none", view |-> NoType, indexing |-> NoType, dim |-> U32(0),
   tokens |-> <<>>, conflicts |-> {}]

Init ==
  /\ op = EmptyState
  /\ state = EmptyState
  /\ out = Out("init", "", <<>>)
  /\ text = <<>>
  /\ printedOp = EmptyState
  /\ input = NoInput
  /\ aborted = FALSE

\* the dims a caller of build passes
BuildDims == {U32(d) : d \in 0..MaxDim}

\* the integer attributes the mutation API stores under "dim": index-typed,
\* as build's, with a 64-bit value
DimAttrs ==
  {IntegerAttr("dim", "index", v) : v \in {I64(k) : k \in -1..MaxDim} \cup {I64Above(0)}}

\* b->create<SliceOp>(view, indexing, dim): build fills the OperationState and
\* the operation is created from it. The callers pass a view and a range or
\* an index (lines 43 and 54 assert it).
BuildWith(view, indexing, dim) ==
  /\ ~aborted
  /\ state' = build(view, indexing, dim)
  /\ op' = state'
  /\ out' = Out("build", Success, <<>>)
  /\ text' = <<>>
  /\ printedOp' = EmptyState
  /\ UNCHANGED <<input, aborted>>

\* an instance is created once
Build ==
  /\ op = EmptyState
  /\ \E view \in ViewTypes, indexing \in IndexingTypes, dim \in BuildDims :
       BuildWith(view, indexing, dim)

Verify ==
  /\ ~aborted
  /\ op # EmptyState
  /\ \E r \in verify(op) :
       /\ out' = Out("verify", r.result, r.checks)
       /\ aborted' = r.aborted
  /\ UNCHANGED <<op, state, text, printedOp, input>>

\* Operation::setOperand
SetOperand ==
  /\ ~aborted
  /\ op # EmptyState
  /\ \E i \in 1..2, type \in Types :
       op' = [op EXCEPT !.operands[i] = type]
  /\ out' = Out("set", Success, <<>>)
  /\ state' = EmptyState
  /\ text' = <<>>
  /\ printedOp' = EmptyState
  /\ UNCHANGED <<input, aborted>>

\* Operation::setAttr
SetAttr ==
  /\ ~aborted
  /\ op # EmptyState
  /\ \E attr \in DimAttrs \cup {TagAttr} :
       op' = [op EXCEPT !.attributes = addAttribute(@, attr)]
  /\ out' = Out("set", Success, <<>>)
  /\ state' = EmptyState
  /\ text' = <<>>
  /\ printedOp' = EmptyState
  /\ UNCHANGED <<input, aborted>>

\* Operation::removeAttr
RemoveAttr ==
  /\ ~aborted
  /\ op # EmptyState
  /\ \E name \in {"dim", "tag"} :
       /\ hasAttr(op, name)
       /\ op' = [op EXCEPT !.attributes = {a \in @ : a.name # name}]
  /\ out' = Out("set", Success, <<>>)
  /\ state' = EmptyState
  /\ text' = <<>>
  /\ printedOp' = EmptyState
  /\ UNCHANGED <<input, aborted>>

\* print: getAttrOfType<IntegerAttr>("dim") of an instance without dim is a
\* null attribute and getInt() on it ends the process; getParentViewType()
\* casts operand 0's type to a view: an assertion failure, or, with assertions
\* compiled out, the type is printed as it is
PrintOp ==
  /\ ~aborted
  /\ op # EmptyState
  /\ \/ /\ hasAttr(op, "dim")
        /\ text' = print(op)
        /\ printedOp' = op
        /\ out' = Out("print", Success, <<>>)
        /\ UNCHANGED aborted
     \/ /\ ~hasAttr(op, "dim") \/ ~isa(getParentView(op), "view")
        /\ aborted' = TRUE
        /\ out' = Out("print", "aborted", <<>>)
        /\ UNCHANGED <<text, printedOp>>
  /\ UNCHANGED <<op, state, input>>

\* the custom-operation parser: parse fills a fresh OperationState, and the
\* operation is created from it when parse succeeds
ParseWith(toks, conflicts) ==
  /\ ~aborted
  /\ LET r == parse(toks, conflicts) IN
       /\ state' = r.state
       /\ out' = Out("parse", r.result, <<>>)
       /\ op' = IF r.result = Success THEN r.state ELSE op
  /\ UNCHANGED <<text, printedOp, input, aborted>>

\* the printed text is read back where its operands are defined as printed
Parse ==
  /\ text # <<>>
  /\ ParseWith(Tail(text), {})

Next ==
  \/ Build
  \/ Verify
  \/ SetOperand
  \/ SetAttr
  \/ RemoveAttr
  \/ PrintOp
  \/ Parse

Spec == Init /\ [][Next]_vars

----------------------------------------------------------------------------
(* build and parse as functions of their arguments: one call per behaviour, *)
(* on arguments drawn in the initial state.                                *)

RECURSIVE CommaSep(_)
CommaSep(toks) ==
  IF Len(toks) <= 1 THEN toks
  ELSE <<toks[1], Punct(",")>> \o CommaSep(Tail(toks))

\* n < 0: the bracketed list is missing
BracketText(n) ==
  IF n < 0 THEN <<>>
  ELSE <<Punct("[")>> \o CommaSep([i \in 1..n |-> SsaTok(OperandNames[i + 1])])
       \o <<Punct("]")>>

TypeLists == UNION {[1..n -> TextTypes] : n \in 1..MaxTypes}

TypeListText(types) ==
  <<Punct(":")>> \o CommaSep([i \in 1..Len(types) |-> TypeTok(types[i])])

DimEntry(k) == [name |-> "dim", type |-> "", value |-> I64(k)]

\* no dictionary, {dim = 0}, {dim = 0, tag = 0}, and {dim = 0} {tag = 0}
TextDicts ==
  {<<>>,
   <<DictTok({DimEntry(0)})>>,
   <<DictTok({DimEntry(0), printAttr(TagAttr)})>>,
   <<DictTok({DimEntry(0)}), DictTok({printAttr(TagAttr)})>>}

ParseTexts ==
  {<<SsaTok(OperandNames[1])>> \o BracketText(n) \o dicts \o TypeListText(types) :
     n \in -1..MaxIndexings, dicts \in TextDicts, types \in TypeLists}

Conflicts == {{}, {OperandNames[1]}, {OperandNames[2]}}

BuildInputs ==
  {[NoInput EXCEPT !.kind = "build", !.view = view, !.indexing = indexing, !.dim = dim] :
     view \in ViewTypes, indexing \in IndexingTypes, dim \in BuildDims}

ParseInputs ==
  {[NoInput EXCEPT !.kind = "parse", !.tokens = toks, !.conflicts = c] :
     toks \in ParseTexts, c \in Conflicts}

InitOps ==
  /\ op = EmptyState
  /\ state = EmptyState
  /\ out = Out("init", "", <<>>)
  /\ text = <<>>
  /\ printedOp = EmptyState
  /\ input \in BuildInputs \cup ParseInputs
  /\ aborted = FALSE

BuildInput ==
  /\ input.kind = "build"
  /\ out.kind = "init"
  /\ BuildWith(input.view, input.indexing, input.dim)

ParseInput ==
  /\ input.kind = "parse"
  /\ out.kind = "init"
  /\ ParseWith(input.tokens, input.conflicts)

NextOps ==
  \/ BuildInput
  \/ ParseInput

SpecOps == InitOps /\ [][NextOps]_vars

----------------------------------------------------------------------------
(* Properties.                                                             *)

\* the integer d an attribute holds satisfies 0 <= d < rank
InRange(d, rank) == d.hi = 0 /\ U32Lt(d.lo, rank)

\* verify accepts the instance
Accepts(o) == o # EmptyState /\ \A r \in verify(o) : r.result = Success

\* the entries of the bracketed list of a text, and the types after its colon
HasBrackets(toks) == \E i \in 1..Len(toks) : isPunct(toks[i], "[")

IndexingEntries(toks) == Cardinality({i \in 2..Len(toks) : toks[i].k = "ssa"})

DeclaredTypes(toks) == SelectSeq(toks, LAMBDA tok : tok.k = "type")

\* the operand, the bracketed list, the optional attribute dictionary and the
\* colon type list are all there, in that order
MatchesGrammar(toks) ==
  LET v == parseOperand(toks, 1)
      l == parseOperandList(toks, v.next)
      a == parseOptionalAttributeDict(toks, l.next)
      t == parseColonTypeList(toks, a.next)
  IN v.ok /\ l.ok /\ t.ok

\* C1: build on a parent view of rank R >= 1 and element type E, with dim in
\* [0, R), produces exactly one result type: view(E, R - 1) for an index, the
\* parent's view type for a range; the operands are (parent view, indexing)
\* and the one attribute is dim = the given dim.
C1_BuildResult ==
  (/\ out.kind = "build"
   /\ input.kind = "build"
   /\ input.view.rank # U32(0)
   /\ U32Lt(input.dim, input.view.rank))
  => /\ Len(state.types) = 1
     /\ isa(input.indexing, "index")
          => state.types[1] = ViewType(input.view.elem, U32Dec(input.view.rank))
     /\ isa(input.indexing, "range") => state.types[1] = input.view
     /\ state.operands = <<input.view, input.indexing>>
     /\ Cardinality(state.attributes) = 1
     /\ hasAttr(state, "dim")
     /\ getAttr(state, "dim").value = ZExt(input.dim)

C1_Witness ==
  /\ out.kind = "build"
  /\ input.view = ViewType("i32", U32(2))
  /\ input.indexing = IndexType
  /\ input.dim = U32(1)
  /\ state.types = <<ViewType("i32", U32(1))>>

\* C2 (as stated): parsing the text print wrote for an instance verify accepts
\* succeeds and yields the same parent view type, indexing type, dim value and
\* result type, also when the instance carries attributes other than dim.
C2_RoundTrip ==
  (out.kind = "parse" /\ Accepts(printedOp))
  => /\ out.result = Success
     /\ getParentViewType(state) = getParentViewType(printedOp)
     /\ getIndexing(state) = getIndexing(printedOp)
     /\ getAttr(state, "dim").value = getAttr(printedOp, "dim").value
     /\ state.types = printedOp.types

\* C3 (as stated): on an instance with a dim attribute, verify returns the
\* first-operand message when operand 0 is no view, and the second-operand
\* message when operand 0 is a view, dim is in range and operand 1 is neither
\* range nor index; it returns and does not abort.
C3_OperandMessages ==
  (out.kind = "verify" /\ hasAttr(op, "dim"))
  => /\ ~isa(op.operands[1], "view")
          => out.result = FirstOperandMsg /\ ~aborted
     /\ (/\ isa(op.operands[1], "view")
         /\ InRange(getAttr(op, "dim").value, op.operands[1].rank)
         /\ op.operands[2] \notin IndexingTypes)
          => out.result = SecondOperandMsg /\ ~aborted

\* C4: without a dim attribute verify returns the missing-dim message whatever
\* the operands' types are, and the attribute check is the only check it
\* evaluated.
C4_MissingDimFirst ==
  (out.kind = "verify" /\ ~hasAttr(op, "dim"))
  => /\ out.result = MissingDimMsg
     /\ out.checks = <<"attr">>
     /\ ~aborted

C4_Witness ==
  /\ out.kind = "verify"
  /\ ~hasAttr(op, "dim")
  /\ op.operands = <<F32Type, F32Type>>
  /\ out.result = MissingDimMsg

\* C5 (as stated): with a view of rank R as operand 0 and a dim attribute whose
\* integer value is not in [0, R), verify returns the dim-range message.
C5_DimOutOfRange ==
  (/\ out.kind = "verify"
   /\ hasAttr(op, "dim")
   /\ isa(op.operands[1], "view")
   /\ ~InRange(getAttr(op, "dim").value, op.operands[1].rank))
  => out.result = DimRangeMsg

\* C6 (as stated): parse returns 'expected 1 indexing type' whenever the
\* bracketed list holds 0 entries or 2 or more.
C6_IndexingCount ==
  (/\ out.kind = "parse"
   /\ input.kind = "parse"
   /\ HasBrackets(input.tokens)
   /\ IndexingEntries(input.tokens) # 1)
  => out.result = ExpectedOneIndexingMsg

\* C6 (amended): parse returns 'expected 1 indexing type' whenever the text
\* matches the grammar (operand, bracketed list, optional attribute dictionary,
\* colon type list) and the bracketed list holds 0 entries or 2 or more.
C6_IndexingCountOfGrammaticalText ==
  (/\ out.kind = "parse"
   /\ input.kind = "parse"
   /\ MatchesGrammar(input.tokens)
   /\ IndexingEntries(input.tokens) # 1)
  => out.result = ExpectedOneIndexingMsg

C6_Witness ==
  /\ out.kind = "parse"
  /\ MatchesGrammar(input.tokens)
  /\ IndexingEntries(input.tokens) = 0
  /\ out.result = ExpectedOneIndexingMsg

\* C7 (as stated): whenever parse fails, the OperationState holds no operand,
\* no result type and no attribute that parse added.
C7_FailureLeavesStateEmpty ==
  (out.kind = "parse" /\ out.result # Success) => state = EmptyState

\* C8: an instance made by build or by a successful parse is rank-decreasing
\* exactly when its indexing operand is an index, and not rank-decreasing
\* exactly when it is a range.
C8_RankDecreasingIffIndex ==
  (out.kind = "build" \/ (out.kind = "parse" /\ out.result = Success))
  => /\ isRankDecreasing(state) <=> isa(getIndexing(state), "index")
     /\ ~isRankDecreasing(state) <=> isa(getIndexing(state), "range")

C8_Witness ==
  /\ out.kind = "parse"
  /\ out.result = Success
  /\ getParentView(state) = ViewType("f32", U32(2))
  /\ isa(getIndexing(state), "index")
  /\ getViewType(state) = ViewType("f32", U32(1))
  /\ isRankDecreasing(state)

\* C9 (as stated): every instance verify accepts has a dim attribute with
\* 0 <= dim < parent rank, a view as operand 0, a range or an index as operand
\* 1, the parent's element type as result element type, and a result rank equal
\* to the parent rank for a range and to parent rank - 1, not wrapped, for an
\* index.
C9_VerifyIsGate ==
  (out.kind = "verify" /\ out.result = Success)
  => /\ hasAttr(op, "dim")
     /\ InRange(getAttr(op, "dim").value, getParentRank(op))
     /\ isa(getParentView(op), "view")
     /\ getIndexing(op) \in IndexingTypes
     /\ getElementType(op) = getParentElementType(op)
     /\ isa(getIndexing(op), "range") => getRank(op) = getParentRank(op)
     /\ isa(getIndexing(op), "index")
          => getParentRank(op) # U32(0) /\ getRank(op) = U32Dec(getParentRank(op))

\* C10 (as stated): parse succeeds only when the colon type list holds exactly
\* two types, a view and then a range or an index.
C10_ExactlyTwoTypes ==
  (out.kind = "parse" /\ input.kind = "parse" /\ out.result = Success)
  => /\ Len(DeclaredTypes(input.tokens)) = 2
     /\ isa(DeclaredTypes(input.tokens)[1].t, "view")
     /\ DeclaredTypes(input.tokens)[2].t \in IndexingTypes

====
